---- MODULE Spec2Model ----
(***************************************************************************)
(* EnforcerBot: the tools of agent.py (the Tool Dispatcher) and the chat   *)
(* script of app.py (the Chat Session Loop).                               *)
(*                                                                         *)
(* Text is a sequence of one-character strings, so that strip(), lower()   *)
(* and the `in` substring test are computed the way Python computes them. *)
(* A returned string is a record: "tag" names the template of the f-string *)
(* that built it and the other fields are the values interpolated in it.  *)
(***************************************************************************)
EXTENDS Integers, Sequences, FiniteSets, TLC

(***************************************************************************)
(* Bounds of the model.                                                    *)
(***************************************************************************)
MaxFrags == 2      \* fragments concatenated into one situation text
MaxTime == 1       \* last value of int(time.time()) the clock reaches
MaxRand == 1       \* uuid4().hex prefixes are drawn from 0..MaxRand
MaxBody == 1       \* largest HTTP body of the map response, in bytes
MaxSteps == 4      \* user inputs and stream chunks in one session
MaxInvocations == 2 \* file-writing tool invocations that share the tmp directory

(***************************************************************************)
(* Text helpers: str.strip(), str.lower(), `k in s`.                       *)
(***************************************************************************)
Whitespace == {" ", "\t", "\n"}

RECURSIVE LStrip(_)
LStrip(s) ==
    IF s # <<>> /\ Head(s) \in Whitespace THEN LStrip(Tail(s)) ELSE s

RECURSIVE RStrip(_)
RStrip(s) ==
    IF s # <<>> /\ s[Len(s)] \in Whitespace
    THEN RStrip(SubSeq(s, 1, Len(s) - 1))
    ELSE s

Strip(s) == LStrip(RStrip(s))

UpperToLower ==
    [c \in {"A","B","C","D","E","F","G","H","I","J","K","L","M",
            "N","O","P","Q","R","S","T","U","V","W","X","Y","Z"} |->
        CASE c = "A" -> "a" [] c = "B" -> "b" [] c = "C" -> "c"
          [] c = "D" -> "d" [] c = "E" -> "e" [] c = "F" -> "f"
          [] c = "G" -> "g" [] c = "H" -> "h" [] c = "I" -> "i"
          [] c = "J" -> "j" [] c = "K" -> "k" [] c = "L" -> "l"
          [] c = "M" -> "m" [] c = "N" -> "n" [] c = "O" -> "o"
          [] c = "P" -> "p" [] c = "Q" -> "q" [] c = "R" -> "r"
          [] c = "S" -> "s" [] c = "T" -> "t" [] c = "U" -> "u"
          [] c = "V" -> "v" [] c = "W" -> "w" [] c = "X" -> "x"
          [] c = "Y" -> "y" [] c = "Z" -> "z"]

Lower(s) ==
    [i \in 1..Len(s) |->
        IF s[i] \in DOMAIN UpperToLower THEN UpperToLower[s[i]] ELSE s[i]]

Contains(s, k) ==
    \E i \in 1..(Len(s) - Len(k) + 1) : SubSeq(s, i, i + Len(k) - 1) = k

RECURSIVE Concat(_)
Concat(ss) == IF ss = <<>> THEN <<>> ELSE Head(ss) \o Concat(Tail(ss))

(***************************************************************************)
(* assess_risk_level: the keyword tables.                                  *)
(***************************************************************************)
high_risk_keywords == {
    <<"f", "o", "l", "l", "o", "w", "i", "n", "g">>,
    <<"s", "t", "a", "l", "k", "i", "n", "g">>,
    <<"t", "h", "r", "e", "a", "t">>,
    <<"w", "e", "a", "p", "o", "n">>,
    <<"v", "i", "o", "l", "e", "n", "c", "e">>,
    <<"a", "t", "t", "a", "c", "k">>,
    <<"d", "a", "n", "g", "e", "r">>,
    <<"e", "m", "e", "r", "g", "e", "n", "c", "y">>,
    <<"a", "s", "s", "a", "u", "l", "t">>,
    <<"r", "o", "b", "b", "e", "r", "y">> }

medium_risk_keywords == {
    <<"s", "u", "s", "p", "i", "c", "i", "o", "u", "s">>,
    <<"h", "a", "r", "a", "s", "s", "m", "e", "n", "t">>,
    <<"t", "h", "e", "f", "t">>,
    <<"b", "r", "e", "a", "k", "-", "i", "n">>,
    <<"u", "n", "s", "a", "f", "e">>,
    <<"c", "o", "n", "c", "e", "r", "n">>,
    <<"w", "i", "t", "n", "e", "s", "s", "e", "d">>,
    <<"c", "r", "i", "m", "e">> }

AnyKeyword(situation_lower, keywords) ==
    \E keyword \in keywords : Contains(situation_lower, keyword)

\* Mutation of risk_level: the MEDIUM table is consulted before the HIGH one.
risk_level_medium_first(situation) ==
    LET situation_lower == Lower(situation) IN
    IF AnyKeyword(situation_lower, medium_risk_keywords) THEN "MEDIUM"
    ELSE IF AnyKeyword(situation_lower, high_risk_keywords) THEN "HIGH"
    ELSE "LOW"

risk_level(situation) ==
    LET situation_lower == Lower(situation) IN
    IF AnyKeyword(situation_lower, high_risk_keywords) THEN "HIGH"
    ELSE IF AnyKeyword(situation_lower, medium_risk_keywords) THEN "MEDIUM"
    ELSE "LOW"

immediate_action(level) ==
    CASE level = "HIGH" -> "Call emergency services immediately"
      [] level = "MEDIUM" -> "Stay alert, move to a populated area"
      [] level = "LOW" -> "Maintain situational awareness"

(***************************************************************************)
(* The environment of the tools: module-level configuration, the tmp       *)
(* directory, the clock, and the outcomes of the external calls.           *)
(***************************************************************************)
VARIABLES
    API_KEY,        \* TRUE iff os.getenv("openrouter_api") or "OPENROUTER_API" is set
    MAPBOX_TOKEN,   \* TRUE iff os.getenv("MAPBOX_ACCESS_TOKEN") is set
    TWILIO,         \* TRUE iff TWILIO_SID, TWILIO_TOKEN and TWILIO_PHONE are set
    tmp,            \* the tmp directory: path -> file
    now,            \* int(time.time())
    last,           \* the last tool invocation: arguments, result, effects
    writes          \* the file writes of the invocations that share the tmp
                    \* directory, one entry per write, in order

toolVars == <<API_KEY, MAPBOX_TOKEN, TWILIO, tmp, now, last, writes>>

VARIABLES
    messages,       \* st.session_state.messages
    pc,             \* "idle": the script has finished; "streaming": in the loop
    full,           \* accumulated assistant text
    current_tool,   \* "None" or the name of the tool last started
    map_images,     \* satellite map paths collected in this run
    existing_maps,  \* map files known before / swept during this run
    ph,             \* what the assistant placeholder shows
    image_file,     \* the temporary copy of the uploaded image
    turns,          \* submissions of the chat input so far
    examples,       \* sidebar example prompts injected so far
    steps,          \* user inputs and stream chunks so far
    open,           \* the agent's tool calls started and not yet completed
    deltas,         \* the content of the RunResponseContent chunks of this run,
                    \* concatenated in arrival order (None contributes nothing)
    completed,      \* map paths returned by tool calls of this run that completed
    outcome         \* how the last run ended: "none", "ok", "error"

chatVars == <<messages, pc, full, current_tool, map_images, existing_maps, ph,
              image_file, turns, examples, steps, open, deltas, completed,
              outcome>>

vars == <<API_KEY, MAPBOX_TOKEN, TWILIO, tmp, now, last, writes, messages,
          pc, full, current_tool, map_images, existing_maps, ph, image_file,
          turns, examples, steps, open, deltas, completed, outcome>>

NoPath == <<>>
NoCall == [tool |-> "none"]

\* An exception object; str(e) of an OSError raised by open() ends with the
\* file name, so "filename" is part of the text built from str(e).
Exc(type, msg, filename) == [type |-> type, msg |-> msg, filename |-> filename]

Return(fields) == [kind |-> "return"] @@ fields
Raise(e) == [kind |-> "raise", error |-> e]

\* Text arguments the caller may pass: empty, blank, and non-blank ones.
Texts == { <<>>, <<" ">>, <<"\t", " ">>, <<"P">>, <<" ", "Q", " ">> }
IsBlank(s) == Strip(s) = <<>>

\* Outcomes of the Nominatim request of _get_coordinates: no answer, an
\* error status, an empty list, and a list whose first element has the "lat"
\* and "lon" the service chose to send (float() parses any number).
GeoOutcomes ==
    { [status |-> "neterr", lat |-> 0, lon |-> 0],
      [status |-> "http_error", lat |-> 0, lon |-> 0],
      [status |-> "empty", lat |-> 0, lon |-> 0],
      [status |-> "ok", lat |-> 48, lon |-> 2],
      [status |-> "ok", lat |-> 12, lon |-> -61],
      [status |-> "ok", lat |-> 91, lon |-> 181] }

\* Outcomes of opening a file for writing and writing it.
FsOutcomes == {"ok", "open_fails", "write_fails"}

File(kind, bytes, complete, data) ==
    [kind |-> kind, bytes |-> bytes, complete |-> complete, data |-> data]

Put(dir, path, file) ==
    [p \in (DOMAIN dir) \cup {path} |-> IF p = path THEN file ELSE dir[p]]

(***************************************************************************)
(* with open(path, mode) as f: f.write(content)                            *)
(* open() creates or truncates the file; a failing write leaves the bytes  *)
(* written so far (written < size).  Returns the directory, the log entry  *)
(* of the operation and the exception raised, if any.                      *)
(***************************************************************************)
WriteFile(dir, path, kind, size, data, fs, written) ==
    CASE fs = "open_fails" ->
            [tmp |-> dir,
             log |-> <<[path |-> path, op |-> "open_fails"]>>,
             error |-> <<Exc("OSError", "open failed", path)>>]
      [] fs = "write_fails" ->
            [tmp |-> Put(dir, path, File(kind, written, FALSE, data)),
             log |-> <<[path |-> path, op |-> "write_fails"]>>,
             error |-> <<Exc("OSError", "write failed", NoPath)>>]
      [] fs = "ok" ->
            [tmp |-> Put(dir, path, File(kind, size, TRUE, data)),
             log |-> <<[path |-> path, op |-> "written"]>>,
             error |-> <<>>]

\* Mutation of get_coordinates: a request that got no answer is sent again.
get_coordinates_retry_once(location, geo) ==
    CASE IsBlank(location) ->
            [result |-> Raise(Exc("ValueError", "Location cannot be empty", NoPath)),
             net |-> <<>>]
      [] geo.status = "neterr" ->
            [result |-> Raise(Exc("RequestException", "connection error", NoPath)),
             net |-> <<"nominatim", "nominatim">>]
      [] geo.status = "http_error" ->
            [result |-> Raise(Exc("HTTPError", "bad status", NoPath)),
             net |-> <<"nominatim">>]
      [] geo.status = "empty" ->
            [result |-> Raise(Exc("ValueError", "Location not found", NoPath)),
             net |-> <<"nominatim">>]
      [] OTHER ->
            [result |-> Return([lat |-> geo.lat, lon |-> geo.lon]),
             net |-> <<"nominatim">>]

(***************************************************************************)
(* _get_coordinates(location)                                              *)
(***************************************************************************)
\* Mutation of get_coordinates: an empty result list yields the origin (0, 0).
get_coordinates_zero_when_empty(location, geo) ==
    CASE IsBlank(location) ->
            [result |-> Raise(Exc("ValueError", "Location cannot be empty", NoPath)),
             net |-> <<>>]
      [] geo.status = "neterr" ->
            [result |-> Raise(Exc("RequestException", "connection error", NoPath)),
             net |-> <<"nominatim">>]
      [] geo.status = "http_error" ->
            [result |-> Raise(Exc("HTTPError", "bad status", NoPath)),
             net |-> <<"nominatim">>]
      [] OTHER ->
            [result |-> Return([lat |-> geo.lat, lon |-> geo.lon]),
             net |-> <<"nominatim">>]

get_coordinates(location, geo) ==
    CASE IsBlank(location) ->
            [result |-> Raise(Exc("ValueError", "Location cannot be empty", NoPath)),
             net |-> <<>>]
      [] geo.status = "neterr" ->
            [result |-> Raise(Exc("RequestException", "connection error", NoPath)),
             net |-> <<"nominatim">>]
      [] geo.status = "http_error" ->
            [result |-> Raise(Exc("HTTPError", "bad status", NoPath)),
             net |-> <<"nominatim">>]
      [] geo.status = "empty" ->
            [result |-> Raise(Exc("ValueError", "Location not found", NoPath)),
             net |-> <<"nominatim">>]
      [] OTHER ->
            [result |-> Return([lat |-> geo.lat, lon |-> geo.lon]),
             net |-> <<"nominatim">>]

(***************************************************************************)
(* coordinates_of_location(location): the same steps, no try/except.       *)
(***************************************************************************)
coordinates_of_location(location, geo) ==
    CASE IsBlank(location) ->
            [result |-> Raise(Exc("ValueError", "Location cannot be empty", NoPath)),
             net |-> <<>>, log |-> <<>>]
      [] geo.status = "neterr" ->
            [result |-> Raise(Exc("RequestException", "connection error", NoPath)),
             net |-> <<"nominatim">>, log |-> <<>>]
      [] geo.status = "http_error" ->
            [result |-> Raise(Exc("HTTPError", "bad status", NoPath)),
             net |-> <<"nominatim">>, log |-> <<>>]
      [] geo.status = "empty" ->
            [result |-> Raise(Exc("ValueError", "Location not found", NoPath)),
             net |-> <<"nominatim">>, log |-> <<>>]
      [] OTHER ->
            [result |-> Return([tag |-> "Coordinates", lat |-> geo.lat, lon |-> geo.lon]),
             net |-> <<"nominatim">>, log |-> <<>>]

(***************************************************************************)
(* web_search(query, max_results)                                          *)
(***************************************************************************)
DdgOutcomes == {"raises", "empty", "results"}

web_search(query, ddg) ==
    CASE ddg = "raises" ->
            [result |-> Return([tag |-> "WebSearchFailed", query |-> query]),
             net |-> <<"ddgs">>, log |-> <<>>]
      [] ddg = "empty" ->
            [result |-> Return([tag |-> "NoResults", query |-> query]),
             net |-> <<"ddgs">>, log |-> <<>>]
      [] ddg = "results" ->
            [result |-> Return([tag |-> "SearchResults", query |-> query]),
             net |-> <<"ddgs">>, log |-> <<>>]

(***************************************************************************)
(* create_satellite_map(location, zoom, size)                              *)
(***************************************************************************)
\* Mutation of MapPath: the file name has the time only, no random suffix.
MapPath_time_only(t, r) == <<"tmp/satellite_map", t, 0>>

\* f"tmp/satellite_map_{int(time.time())}_{uuid.uuid4().hex[:6]}.png"

MapPath(t, r) == <<"tmp/satellite_map", t, r>>

Sizes == { <<"6", "x", "4">>, <<"6">> }

RECURSIVE CountChar(_, _)
CountChar(s, c) ==
    IF s = <<>> THEN 0
    ELSE (IF Head(s) = c THEN 1 ELSE 0) + CountChar(Tail(s), c)

\* width, height = size.split('x') unpacks iff the split gives two parts.
SplitsInTwo(size) == CountChar(size, "x") + 1 = 2

ContentTypes ==
    { <<"i", "m", "a", "g", "e", "/", "p", "n", "g">>,
      <<"I", "m", "a", "g", "e", "/", "P", "N", "G">>,
      <<"t", "e", "x", "t", "/", "h", "t", "m", "l">>,
      <<>> }

IsImage(content_type) ==
    Contains(Lower(content_type), <<"i", "m", "a", "g", "e">>)

\* Outcomes of the Mapbox static image request.
HttpOutcomes ==
    [sent : {"neterr", "response"}, status_code : {200, 404},
     content_type : ContentTypes, body : 0..MaxBody]

MapFailed(e) == Return([tag |-> "MapFailed", error |-> e])

create_satellite_map(location, size, geo, http, fs, written, t, r, dir) ==
    LET coords == get_coordinates(location, geo)
        path == MapPath(t, r)
        w == WriteFile(dir, path, "png", http.body, <<>>, fs, written)
    IN
    CASE IsBlank(location) ->
            [result |-> Return([tag |-> "LocationEmpty"]),
             net |-> <<>>, log |-> <<>>, tmp |-> dir]
      [] ~MAPBOX_TOKEN ->
            [result |-> Return([tag |-> "TokenMissing"]),
             net |-> <<>>, log |-> <<>>, tmp |-> dir]
      [] coords.result.kind = "raise" ->
            [result |-> MapFailed(coords.result.error),
             net |-> coords.net, log |-> <<>>, tmp |-> dir]
      [] ~SplitsInTwo(size) ->
            [result |-> MapFailed(Exc("ValueError", "unpack", NoPath)),
             net |-> coords.net, log |-> <<>>, tmp |-> dir]
      [] http.sent = "neterr" ->
            [result |-> MapFailed(Exc("RequestException", "connection error", NoPath)),
             net |-> coords.net \o <<"mapbox_static">>, log |-> <<>>, tmp |-> dir]
      [] http.status_code # 200 ->
            [result |-> Return([tag |-> "MapboxApiError",
                                status_code |-> http.status_code]),
             net |-> coords.net \o <<"mapbox_static">>, log |-> <<>>, tmp |-> dir]
      [] ~IsImage(http.content_type) ->
            [result |-> Return([tag |-> "ExpectedImage",
                                content_type |-> Lower(http.content_type)]),
             net |-> coords.net \o <<"mapbox_static">>, log |-> <<>>, tmp |-> dir]
      [] w.error # <<>> ->
            [result |-> MapFailed(w.error[1]),
             net |-> coords.net \o <<"mapbox_static">>, log |-> w.log, tmp |-> w.tmp]
      [] OTHER ->
            [result |-> Return([tag |-> "MapCreated", path |-> path,
                                bytes |-> http.body]),
             net |-> coords.net \o <<"mapbox_static">>, log |-> w.log, tmp |-> w.tmp]

(***************************************************************************)
(* get_directions(origin, destination, mode)                               *)
(***************************************************************************)
RouteOutcomes == {"neterr", "http_error", "no_routes", "route"}

DirectionsFailed(e) == Return([tag |-> "DirectionsFailed", error |-> e])

\* Mutation of get_directions: the token is tested after the geocoding calls.
get_directions_geocoding_first(origin, destination, geo1, geo2, route) ==
    LET o == get_coordinates(origin, geo1)
        d == get_coordinates(destination, geo2)
    IN
    CASE o.result.kind = "raise" ->
            [result |-> DirectionsFailed(o.result.error), net |-> o.net, log |-> <<>>]
      [] d.result.kind = "raise" ->
            [result |-> DirectionsFailed(d.result.error),
             net |-> o.net \o d.net, log |-> <<>>]
      [] ~MAPBOX_TOKEN ->
            [result |-> Return([tag |-> "TokenMissing"]),
             net |-> o.net \o d.net, log |-> <<>>]
      [] route = "neterr" ->
            [result |-> DirectionsFailed(Exc("RequestException", "connection error", NoPath)),
             net |-> o.net \o d.net \o <<"mapbox_directions">>, log |-> <<>>]
      [] route = "http_error" ->
            [result |-> DirectionsFailed(Exc("HTTPError", "bad status", NoPath)),
             net |-> o.net \o d.net \o <<"mapbox_directions">>, log |-> <<>>]
      [] route = "no_routes" ->
            [result |-> Return([tag |-> "NoRoute"]),
             net |-> o.net \o d.net \o <<"mapbox_directions">>, log |-> <<>>]
      [] OTHER ->
            [result |-> Return([tag |-> "Directions",
                                from |-> <<o.result.lon, o.result.lat>>,
                                to |-> <<d.result.lon, d.result.lat>>]),
             net |-> o.net \o d.net \o <<"mapbox_directions">>, log |-> <<>>]

get_directions(origin, destination, geo1, geo2, route) ==
    LET o == get_coordinates(origin, geo1)
        d == get_coordinates(destination, geo2)
    IN
    CASE ~MAPBOX_TOKEN ->
            [result |-> Return([tag |-> "TokenMissing"]), net |-> <<>>, log |-> <<>>]
      [] o.result.kind = "raise" ->
            [result |-> DirectionsFailed(o.result.error), net |-> o.net, log |-> <<>>]
      [] d.result.kind = "raise" ->
            [result |-> DirectionsFailed(d.result.error),
             net |-> o.net \o d.net, log |-> <<>>]
      [] route = "neterr" ->
            [result |-> DirectionsFailed(Exc("RequestException", "connection error", NoPath)),
             net |-> o.net \o d.net \o <<"mapbox_directions">>, log |-> <<>>]
      [] route = "http_error" ->
            [result |-> DirectionsFailed(Exc("HTTPError", "bad status", NoPath)),
             net |-> o.net \o d.net \o <<"mapbox_directions">>, log |-> <<>>]
      [] route = "no_routes" ->
            [result |-> Return([tag |-> "NoRoute"]),
             net |-> o.net \o d.net \o <<"mapbox_directions">>, log |-> <<>>]
      [] OTHER ->
            [result |-> Return([tag |-> "Directions",
                                from |-> <<o.result.lon, o.result.lat>>,
                                to |-> <<d.result.lon, d.result.lat>>]),
             net |-> o.net \o d.net \o <<"mapbox_directions">>, log |-> <<>>]

(***************************************************************************)
(* submit_police_case(incident_description, location, contact_method,      *)
(*                    urgency)                                              *)
(***************************************************************************)
\* int(time.time()): Unix seconds.  The session starts at SessionStart and
\* `now` counts the seconds since.
SessionStart == 1700000000
UnixSeconds(t) == SessionStart + t

Digits == <<"0", "1", "2", "3", "4", "5", "6", "7", "8", "9">>
HexDigits == Digits \o <<"a", "b", "c", "d", "e", "f">>

\* str(n) of a non-negative integer.
RECURSIVE Decimal(_)
Decimal(n) ==
    IF n < 10 THEN <<Digits[n + 1]>>
    ELSE Decimal(n \div 10) \o <<Digits[(n % 10) + 1]>>

\* str.upper()
Upper(s) ==
    [i \in 1..Len(s) |->
        LET c == s[i]
        IN CASE c = "a" -> "A" [] c = "b" -> "B" [] c = "c" -> "C" [] c = "d" -> "D"
               [] c = "e" -> "E" [] c = "f" -> "F" [] c = "g" -> "G" [] c = "h" -> "H"
               [] c = "i" -> "I" [] c = "j" -> "J" [] c = "k" -> "K" [] c = "l" -> "L"
               [] c = "m" -> "M" [] c = "n" -> "N" [] c = "o" -> "O" [] c = "p" -> "P"
               [] c = "q" -> "Q" [] c = "r" -> "R" [] c = "s" -> "S" [] c = "t" -> "T"
               [] c = "u" -> "U" [] c = "v" -> "V" [] c = "w" -> "W" [] c = "x" -> "X"
               [] c = "y" -> "Y" [] c = "z" -> "Z"
               [] OTHER -> c]

\* uuid.uuid4().hex: 32 lower-case hexadecimal digits; the draw r picks them.
UuidHex(r) == [i \in 1..32 |-> HexDigits[((7 * i + 11 * r) % 16) + 1]]

\* Mutation of CaseId: the suffix of the map file names, hex[:6], not upper-cased.
CaseId_map_suffix(t, r) ==
    <<"C", "A", "S", "E", "_">> \o Decimal(UnixSeconds(t)) \o <<"_">>
        \o SubSeq(UuidHex(r), 1, 6)

\* f"CASE_{int(time.time())}_{uuid.uuid4().hex[:8].upper()}"
CaseId(t, r) ==
    <<"C", "A", "S", "E", "_">> \o Decimal(UnixSeconds(t)) \o <<"_">>
        \o Upper(SubSeq(UuidHex(r), 1, 8))

\* CaseId tabulated over the clock values and the draws of a run.
CaseIdAt == [t \in 0..MaxTime |-> [r \in 0..MaxRand |-> CaseId(t, r)]]

CasePath(case_id) == <<"tmp/case", case_id>>
SmsPath(case_id) == <<"tmp/sms_case", case_id>>
EmailPath(case_id) == <<"tmp/police_case", case_id>>

ContactMethods == {"sms", "email", "phone"}
Urgencies == {"normal", "urgent"}
TwilioOutcomes == {"client_fails", "sent", "send_fails"}

\* Mutation of sms_channel: a failing send is not caught.
sms_channel_send_uncaught(contact_method, tw, fs, case_id, dir) ==
    CASE ~(contact_method = "sms" /\ TWILIO) ->
            [msgs |-> <<>>, net |-> <<>>, log |-> <<>>, tmp |-> dir, escaped |-> <<>>]
      [] tw = "client_fails" ->
            [msgs |-> <<"SmsConfigError">>, net |-> <<>>, log |-> <<>>,
             tmp |-> dir, escaped |-> <<>>]
      [] tw = "sent" ->
            [msgs |-> <<"SmsSent">>, net |-> <<"twilio">>, log |-> <<>>,
             tmp |-> dir, escaped |-> <<>>]
      [] OTHER ->
            [msgs |-> <<>>, net |-> <<"twilio">>, log |-> <<>>, tmp |-> dir,
             escaped |-> <<Exc("TwilioRestException", "send failed", NoPath)>>]

\* The "Send via SMS" block.  "escaped" is the exception that leaves the block.
sms_channel(contact_method, tw, fs, case_id, dir) ==
    LET w == WriteFile(dir, SmsPath(case_id), "txt", 1, case_id, fs, 0) IN
    CASE ~(contact_method = "sms" /\ TWILIO) ->
            [msgs |-> <<>>, net |-> <<>>, log |-> <<>>, tmp |-> dir, escaped |-> <<>>]
      [] tw = "client_fails" ->
            [msgs |-> <<"SmsConfigError">>, net |-> <<>>, log |-> <<>>,
             tmp |-> dir, escaped |-> <<>>]
      [] tw = "sent" ->
            [msgs |-> <<"SmsSent">>, net |-> <<"twilio">>, log |-> <<>>,
             tmp |-> dir, escaped |-> <<>>]
      [] w.error # <<>> ->
            [msgs |-> <<"SmsPrepared", "SmsRestricted", "InProduction",
                        "SmsConfigError">>,
             net |-> <<"twilio">>, log |-> w.log, tmp |-> w.tmp, escaped |-> <<>>]
      [] OTHER ->
            [msgs |-> <<"SmsPrepared", "SmsRestricted", "InProduction",
                        "SmsSaved">>,
             net |-> <<"twilio">>, log |-> w.log, tmp |-> w.tmp, escaped |-> <<>>]

\* Mutation of email_channel: the block has no try/except of its own.
email_channel_uncaught(contact_method, fs, case_id, dir) ==
    LET w == WriteFile(dir, EmailPath(case_id), "txt", 1, case_id, fs, 0) IN
    CASE contact_method # "email" ->
            [msgs |-> <<>>, log |-> <<>>, tmp |-> dir, escaped |-> <<>>]
      [] w.error # <<>> ->
            [msgs |-> <<>>, log |-> w.log, tmp |-> w.tmp, escaped |-> w.error]
      [] OTHER ->
            [msgs |-> <<"EmailSaved", "InProduction">>, log |-> w.log,
             tmp |-> w.tmp, escaped |-> <<>>]

\* The "Send via email" block.
email_channel(contact_method, fs, case_id, dir) ==
    LET w == WriteFile(dir, EmailPath(case_id), "txt", 1, case_id, fs, 0) IN
    CASE contact_method # "email" ->
            [msgs |-> <<>>, log |-> <<>>, tmp |-> dir, escaped |-> <<>>]
      [] w.error # <<>> ->
            [msgs |-> <<"EmailFailed">>, log |-> w.log, tmp |-> w.tmp,
             escaped |-> <<>>]
      [] OTHER ->
            [msgs |-> <<"EmailSaved", "InProduction">>, log |-> w.log,
             tmp |-> w.tmp, escaped |-> <<>>]

SubmitFailed(e) == Return([tag |-> "SubmitFailed", error |-> e])

submit_police_case(incident_description, location, contact_method, urgency, tw, fsSms, fsEmail, fsCase, t, r, dir) ==
    LET case_id == CaseIdAt[t][r]
        sms == sms_channel(contact_method, tw, fsSms, case_id, dir)
        email == email_channel(contact_method, fsEmail, case_id, sms.tmp)
        case_file == CasePath(case_id)
        case_data == [case_id |-> case_id, timestamp |-> t,
                      location |-> location,
                      incident_description |-> incident_description,
                      urgency |-> urgency, contact_method |-> contact_method,
                      status |-> "submitted"]
        w == WriteFile(email.tmp, case_file, "json", 1, case_data, fsCase, 0)
    IN
    CASE sms.escaped # <<>> ->
            [result |-> SubmitFailed(sms.escaped[1]), net |-> sms.net,
             log |-> sms.log, tmp |-> sms.tmp, case_id |-> case_id]
      [] email.escaped # <<>> ->
            [result |-> SubmitFailed(email.escaped[1]), net |-> sms.net,
             log |-> sms.log \o email.log, tmp |-> email.tmp, case_id |-> case_id]
      [] w.error # <<>> ->
            [result |-> SubmitFailed(w.error[1]), net |-> sms.net,
             log |-> sms.log \o email.log \o w.log, tmp |-> w.tmp,
             case_id |-> case_id]
      [] OTHER ->
            [result |-> Return([tag |-> "Submitted", case_id |-> case_id,
                                case_file |-> case_file,
                                messages |-> sms.msgs \o email.msgs]),
             net |-> sms.net, log |-> sms.log \o email.log \o w.log,
             tmp |-> w.tmp, case_id |-> case_id]

(***************************************************************************)
(* assess_risk_level(situation, location, context)                         *)
(***************************************************************************)
\* len(search_results.strip()) > n, for n <= 50.  Only the "no results" text
\* can be as short as 50 characters: it is 35 characters followed by the
\* query (34 when the query is blank and the space before it is stripped
\* too), while the two other templates are longer than 50 characters
\* without the query.
StrippedLongerThan(search, n) ==
    IF search.tag = "NoResults"
    THEN (IF RStrip(search.query) = <<>> THEN 34
          ELSE 35 + Len(RStrip(search.query))) > n
    ELSE TRUE

\* The embedded web_search call: "raises" is the call itself failing, which
\* the bare except swallows.
EmbeddedSearchOutcomes == DdgOutcomes \cup {"call_raises"}

\* Mutation of assess_risk_level: the keywords are looked up in the situation
\* and the location.
assess_risk_level_matching_location(situation, location, context, ws) ==
    LET level == risk_level(situation \o <<" ">> \o location)
        risk_query == <<"s","a","f","e","t","y"," ","t","i","p","s"," ">>
                          \o situation \o <<" ">> \o location
        search == web_search(risk_query, ws)
        extra == IF ws = "call_raises" THEN FALSE
                 ELSE StrippedLongerThan(search.result, 50)
    IN
    [result |-> Return([tag |-> "RiskAssessment", situation |-> situation,
                        location |-> location, risk_level |-> level,
                        immediate_action |-> immediate_action(level),
                        additional |-> extra]),
     net |-> IF ws = "call_raises" THEN <<>> ELSE search.net,
     log |-> <<>>]

assess_risk_level(situation, location, context, ws) ==
    LET level == risk_level(situation)
        risk_query == <<"s","a","f","e","t","y"," ","t","i","p","s"," ">>
                          \o situation \o <<" ">> \o location
        search == web_search(risk_query, ws)
        extra == IF ws = "call_raises" THEN FALSE
                 ELSE StrippedLongerThan(search.result, 50)
    IN
    [result |-> Return([tag |-> "RiskAssessment", situation |-> situation,
                        location |-> location, risk_level |-> level,
                        immediate_action |-> immediate_action(level),
                        additional |-> extra]),
     net |-> IF ws = "call_raises" THEN <<>> ELSE search.net,
     log |-> <<>>]

(***************************************************************************)
(* web_search called from inside another tool.  The decorated web_search   *)
(* is the object the @tool decorator returned: calling it either runs the  *)
(* search or raises before any request is made ("call_raises").            *)
(***************************************************************************)
EmbeddedSearch(query, ws) ==
    IF ws = "call_raises"
    THEN [raised |-> TRUE, text |-> <<>>, net |-> <<>>]
    ELSE [raised |-> FALSE, text |-> <<web_search(query, ws).result>>,
          net |-> web_search(query, ws).net]

\* if result and len(result.strip()) > n: the search text is kept.
Kept(search, n) ==
    /\ ~search.raised
    /\ StrippedLongerThan(search.text[1], n)

(***************************************************************************)
(* get_weather_information(location)                                       *)
(***************************************************************************)
CurrentWeather == <<"c", "u", "r", "r", "e", "n", "t", " ", "w", "e", "a", "t", "h", "e", "r", " ">>
TodayTemperature == <<" ", "t", "o", "d", "a", "y", " ", "t", "e", "m", "p", "e", "r", "a", "t", "u", "r", "e", " ", "c", "o", "n", "d", "i", "t", "i", "o", "n", "s", " ", "f", "o", "r", "e", "c", "a", "s", "t">>

get_weather_information(location, ws) ==
    LET weather_query == CurrentWeather \o location \o TodayTemperature
        search == EmbeddedSearch(weather_query, ws)
    IN
    CASE search.raised ->
            [result |-> Return([tag |-> "WeatherFailed", location |-> location]),
             net |-> search.net, log |-> <<>>]
      [] Kept(search, 30) ->
            [result |-> Return([tag |-> "WeatherInformation",
                                location |-> location]),
             net |-> search.net, log |-> <<>>]
      [] OTHER ->
            [result |-> Return([tag |-> "WeatherUnavailable",
                                location |-> location]),
             net |-> search.net, log |-> <<>>]

(***************************************************************************)
(* get_current_location()                                                  *)
(***************************************************************************)
\* Outcomes of the request to ip-api.com: no connection, an HTTP error
\* status, a body that is not JSON, a JSON body that is not an object, and
\* a JSON object: with status "success" and numbers for lat and lon, with
\* status "success" and a lat that is not a number, with another status, and
\* without a status field.
IpOutcomes ==
    {"neterr", "http_error", "not_json", "not_object", "success",
     "success_lat_text", "fail", "no_status"}

\* data.get("status") of the response, where there is a JSON object.
IpStatus(ip) ==
    CASE ip \in {"success", "success_lat_text"} -> "success"
      [] ip = "fail" -> "fail"
      [] ip = "no_status" -> "None"
      [] OTHER -> "no object"

\* Mutation of get_current_location: every JSON object is reported.
get_current_location_ignoring_status(ip) ==
    CASE ip = "neterr" ->
            [result |-> Return([tag |-> "LocationDetectionFailed",
                                error |-> Exc("RequestException", "connection error", NoPath)]),
             net |-> <<"ip-api">>, log |-> <<>>]
      [] ip = "http_error" ->
            [result |-> Return([tag |-> "LocationDetectionFailed",
                                error |-> Exc("HTTPError", "bad status", NoPath)]),
             net |-> <<"ip-api">>, log |-> <<>>]
      [] ip = "not_json" ->
            [result |-> Return([tag |-> "LocationDetectionFailed",
                                error |-> Exc("JSONDecodeError", "not json", NoPath)]),
             net |-> <<"ip-api">>, log |-> <<>>]
      [] ip = "not_object" ->
            [result |-> Return([tag |-> "LocationDetectionFailed",
                                error |-> Exc("AttributeError", "no attribute 'get'", NoPath)]),
             net |-> <<"ip-api">>, log |-> <<>>]
      [] ip = "success_lat_text" ->
            [result |-> Return([tag |-> "LocationDetectionFailed",
                                error |-> Exc("ValueError", "format code 'f'", NoPath)]),
             net |-> <<"ip-api">>, log |-> <<>>]
      [] OTHER ->
            [result |-> Return([tag |-> "CurrentLocation"]),
             net |-> <<"ip-api">>, log |-> <<>>]

get_current_location(ip) ==
    CASE ip = "neterr" ->
            [result |-> Return([tag |-> "LocationDetectionFailed",
                                error |-> Exc("RequestException", "connection error", NoPath)]),
             net |-> <<"ip-api">>, log |-> <<>>]
      [] ip = "http_error" ->
            [result |-> Return([tag |-> "LocationDetectionFailed",
                                error |-> Exc("HTTPError", "bad status", NoPath)]),
             net |-> <<"ip-api">>, log |-> <<>>]
      [] ip = "not_json" ->
            [result |-> Return([tag |-> "LocationDetectionFailed",
                                error |-> Exc("JSONDecodeError", "not json", NoPath)]),
             net |-> <<"ip-api">>, log |-> <<>>]
      [] ip = "not_object" ->
            [result |-> Return([tag |-> "LocationDetectionFailed",
                                error |-> Exc("AttributeError", "no attribute 'get'", NoPath)]),
             net |-> <<"ip-api">>, log |-> <<>>]
      [] ip = "success_lat_text" ->
            [result |-> Return([tag |-> "LocationDetectionFailed",
                                error |-> Exc("ValueError", "format code 'f'", NoPath)]),
             net |-> <<"ip-api">>, log |-> <<>>]
      [] ip = "success" ->
            [result |-> Return([tag |-> "CurrentLocation"]),
             net |-> <<"ip-api">>, log |-> <<>>]
      [] OTHER ->
            [result |-> Return([tag |-> "LocationUnknown"]),
             net |-> <<"ip-api">>, log |-> <<>>]

(***************************************************************************)
(* get_safety_tips(situation_type, location)                               *)
(***************************************************************************)
SafetyTipsFor == <<"s", "a", "f", "e", "t", "y", " ", "t", "i", "p", "s", " ">>
WhatToDo == <<" ", "w", "h", "a", "t", " ", "t", "o", " ", "d", "o">>

\* The keys of immediate_tips, in the order of the dict.
immediate_tips_keys == << <<"t", "h", "e", "f", "t">>,
                          <<"h", "a", "r", "a", "s", "s", "m", "e", "n", "t">>,
                          <<"s", "u", "s", "p", "i", "c", "i", "o", "u", "s">>,
                          <<"e", "m", "e", "r", "g", "e", "n", "c", "y">> >>

\* The first key found in situation_type.lower(), if any.
situation_key(situation_type) ==
    LET found == { i \in 1..Len(immediate_tips_keys) :
                     Contains(Lower(situation_type), immediate_tips_keys[i]) }
    IN IF found = {} THEN <<>>
       ELSE <<immediate_tips_keys[CHOOSE i \in found : \A j \in found : i <= j]>>

get_safety_tips(situation_type, location, ws) ==
    LET search_query == SafetyTipsFor \o situation_type \o WhatToDo
        search == EmbeddedSearch(search_query, ws)
    IN [result |-> Return([tag |-> "SafetyTips",
                           situation_type |-> situation_type,
                           guidance_for |-> location,
                           immediate |-> situation_key(situation_type),
                           additional |-> Kept(search, 30)]),
        net |-> search.net, log |-> <<>>]

(***************************************************************************)
(* find_nearby_resources(location, resource_type)                          *)
(***************************************************************************)
AddressContact == <<" ", "a", "d", "d", "r", "e", "s", "s", " ", "c", "o", "n", "t", "a", "c", "t">>

find_nearby_resources(location, resource_type, geo, ws) ==
    LET coords == get_coordinates(location, geo)
        search_query == resource_type \o <<" ">> \o location \o AddressContact
        search == EmbeddedSearch(search_query, ws)
    IN
    IF coords.result.kind = "raise"
    THEN [result |-> Return([tag |-> "ResourcesTechnicalError",
                             location |-> location,
                             error |-> coords.result.error]),
          net |-> coords.net, log |-> <<>>]
    ELSE [result |-> Return([tag |-> "Resources", location |-> location,
                             lat |-> coords.result.lat,
                             lon |-> coords.result.lon,
                             found |-> Kept(search, 30)]),
          net |-> coords.net \o search.net, log |-> <<>>]

(***************************************************************************)
(* get_legal_information(country, legal_topic, situation)                  *)
(***************************************************************************)
LawsLegalRights == <<" ", "l", "a", "w", "s", " ", "l", "e", "g", "a", "l", " ", "r", "i", "g", "h", "t", "s", " ", "w", "h", "a", "t", " ", "t", "o", " ", "d", "o">>
LegalSystem == <<" ", "l", "e", "g", "a", "l", " ", "s", "y", "s", "t", "e", "m", " ">>
VictimRights == <<" ", "v", "i", "c", "t", "i", "m", " ", "r", "i", "g", "h", "t", "s">>
CriminalLaw == <<" ", "c", "r", "i", "m", "i", "n", "a", "l", " ", "l", "a", "w", " ">>
PenaltiesPunishment == <<" ", "p", "e", "n", "a", "l", "t", "i", "e", "s", " ", "p", "u", "n", "i", "s", "h", "m", "e", "n", "t">>
LegalAdvice == <<" ", "l", "e", "g", "a", "l", " ", "a", "d", "v", "i", "c", "e">>

legal_search_queries(country, legal_topic, situation) ==
    << country \o <<" ">> \o legal_topic \o LawsLegalRights,
       country \o LegalSystem \o legal_topic \o VictimRights,
       country \o CriminalLaw \o legal_topic \o PenaltiesPunishment >>
    \o (IF situation # <<>>
        THEN << country \o <<" ">> \o legal_topic \o <<" ">> \o situation
                \o LegalAdvice >>
        ELSE <<>>)

\* A loop "for query in queries: try: web_search(query) ... except: continue":
\* one search per query, whatever the outcome of the searches before it.
RECURSIVE SearchEach(_, _, _)
SearchEach(queries, outcomes, n) ==
    IF queries = <<>> THEN [kept |-> 0, net |-> <<>>]
    ELSE LET search == EmbeddedSearch(Head(queries), Head(outcomes))
             rest == SearchEach(Tail(queries), Tail(outcomes), n)
         IN [kept |-> (IF Kept(search, n) THEN 1 ELSE 0) + rest.kept,
             net |-> search.net \o rest.net]

get_legal_information(country, legal_topic, situation, outcomes) ==
    LET searches == SearchEach(legal_search_queries(country, legal_topic, situation),
                               outcomes, 40)
    IN [result |-> Return([tag |-> IF searches.kept > 0 THEN "LegalInformation"
                                   ELSE "LegalGuidance",
                           country |-> country, legal_topic |-> legal_topic,
                           resources |-> searches.kept]),
        net |-> searches.net, log |-> <<>>]

(***************************************************************************)
(* analyze_threat_patterns(incident_description, location)                 *)
(***************************************************************************)
CrimePatterns == <<"c", "r", "i", "m", "e", " ", "p", "a", "t", "t", "e", "r", "n", "s", " ">>
SecurityThreats == <<"s", "e", "c", "u", "r", "i", "t", "y", " ", "t", "h", "r", "e", "a", "t", "s", " ">>
RecentIncidents == <<" ", "r", "e", "c", "e", "n", "t", " ", "i", "n", "c", "i", "d", "e", "n", "t", "s">>
SafetyAlerts == <<"s", "a", "f", "e", "t", "y", " ", "a", "l", "e", "r", "t", "s", " ">>
CrimeTrends == <<" ", "c", "r", "i", "m", "e", " ", "t", "r", "e", "n", "d", "s">>

pattern_queries(incident_description, location) ==
    << CrimePatterns \o location \o <<" ">> \o incident_description,
       SecurityThreats \o location \o RecentIncidents,
       SafetyAlerts \o location \o CrimeTrends >>

pattern_type(incident_description) ==
    LET incident_lower == Lower(incident_description) IN
    IF Contains(incident_lower, <<"t", "h", "e", "f", "t">>)
       \/ Contains(incident_lower, <<"r", "o", "b", "b", "e", "r", "y">>)
    THEN "Property Crime"
    ELSE IF Contains(incident_lower, <<"f", "o", "l", "l", "o", "w", "i", "n", "g">>)
            \/ Contains(incident_lower, <<"s", "t", "a", "l", "k", "i", "n", "g">>)
    THEN "Personal Safety Threat"
    ELSE IF Contains(incident_lower, <<"h", "a", "r", "a", "s", "s", "m", "e", "n", "t">>)
    THEN "Harassment/Intimidation"
    ELSE "General Security Concern"

analyze_threat_patterns(incident_description, location, outcomes) ==
    LET searches == SearchEach(pattern_queries(incident_description, location),
                               outcomes, 50)
    IN [result |-> Return([tag |-> "ThreatAnalysis",
                           incident |-> incident_description,
                           pattern_type |-> pattern_type(incident_description),
                           sources |-> searches.kept]),
        net |-> searches.net, log |-> <<>>]

(***************************************************************************)
(* The tool harness: one action per tool, invoked with any arguments and   *)
(* any outcome of its external calls.  A tool is a function of its         *)
(* arguments, the configuration, the clock, the tmp directory and those    *)
(* outcomes, so a behaviour of the harness is one invocation.              *)
(***************************************************************************)
Invocation(tool, args, eff) ==
    [tool |-> tool, args |-> args, result |-> eff.result,
     net |-> eff.net, log |-> eff.log]

\* Bytes a failing write may leave behind: fewer than the full body.
PartialSizes(size) == IF size = 0 THEN {0} ELSE 0..(size - 1)

\* What the environment did in an invocation, kept with the invocation:
\* the map response the tool received, if the map request was answered,
ResponseSeen(eff, http) ==
    IF Len(eff.net) = 2 /\ http.sent = "response"
    THEN <<[status_code |-> http.status_code,
            content_type |-> http.content_type]>>
    ELSE <<>>

\* and what became of the notification channel the caller asked for.
ChannelOutcome(contact_method, tw, fsSms, fsEmail) ==
    IF contact_method = "sms" /\ TWILIO
    THEN CASE tw = "sent" -> "sms_sent"
           [] tw = "client_fails" -> "sms_client_fails"
           [] tw = "send_fails" /\ fsSms = "ok" -> "sms_send_fails"
           [] OTHER -> "sms_send_and_file_fail"
    ELSE IF contact_method = "email"
    THEN (IF fsEmail = "ok" THEN "email_saved" ELSE "email_fails")
    ELSE "no_channel"

\* One external request of an invocation: the service, what was asked of it,
\* and whether the request failed (no answer, or an error status).
Attempt(service, request, failed) ==
    [service |-> service, request |-> request, failed |-> failed]

\* The requests an invocation made: as many as the tool sent (net), taken in
\* order from the requests its call statements make (planned).
Attempts(net, planned) ==
    [i \in 1..Len(net) |->
        planned[IF i <= Len(planned) THEN i ELSE Len(planned)]]

GeoAttempt(location, geo) ==
    Attempt("nominatim", location, geo.status \in {"neterr", "http_error"})

\* The searches of a loop over queries that reached the network.
RECURSIVE SearchAttempts(_, _)
SearchAttempts(queries, outcomes) ==
    IF queries = <<>> THEN <<>>
    ELSE (IF Head(outcomes) = "call_raises" THEN <<>>
          ELSE <<Attempt("ddgs", Head(queries), Head(outcomes) = "raises")>>)
         \o SearchAttempts(Tail(queries), Tail(outcomes))

Tick ==
    /\ now < MaxTime
    /\ now' = now + 1
    /\ UNCHANGED <<API_KEY, MAPBOX_TOKEN, TWILIO, tmp, last, writes>>
    /\ UNCHANGED chatVars

CallCoordinatesOfLocation ==
    /\ last = NoCall
    /\ \E location \in Texts, geo \in GeoOutcomes :
          last' = Invocation("coordinates_of_location",
                             [location |-> location],
                             coordinates_of_location(location, geo))
                  @@ [attempts |->
                        Attempts(coordinates_of_location(location, geo).net,
                                 <<GeoAttempt(location, geo)>>)]
    /\ UNCHANGED <<API_KEY, MAPBOX_TOKEN, TWILIO, tmp, now, writes>>
    /\ UNCHANGED chatVars

CallWebSearch ==
    /\ last = NoCall
    /\ \E query \in Texts, ddg \in DdgOutcomes :
          last' = Invocation("web_search", [query |-> query],
                             web_search(query, ddg))
                  @@ [attempts |->
                        Attempts(web_search(query, ddg).net,
                                 <<Attempt("ddgs", query, ddg = "raises")>>)]
    /\ UNCHANGED <<API_KEY, MAPBOX_TOKEN, TWILIO, tmp, now, writes>>
    /\ UNCHANGED chatVars

CallCreateSatelliteMap ==
    /\ last = NoCall
    /\ \E location \in Texts, size \in Sizes, geo \in GeoOutcomes,
          http \in HttpOutcomes, fs \in FsOutcomes, r \in 0..MaxRand :
          \E written \in PartialSizes(http.body) :
             LET eff == create_satellite_map(location, size, geo, http, fs,
                                             written, now, r, tmp)
             IN /\ last' = Invocation("create_satellite_map",
                                      [location |-> location, size |-> size], eff)
                               @@ [response |-> ResponseSeen(eff, http),
                                   attempts |->
                                     Attempts(eff.net,
                                        <<GeoAttempt(location, geo),
                                          Attempt("mapbox_static", <<>>,
                                                  \/ http.sent = "neterr"
                                                  \/ http.status_code # 200)>>)]
                /\ tmp' = eff.tmp
    /\ UNCHANGED <<API_KEY, MAPBOX_TOKEN, TWILIO, now, writes>>
    /\ UNCHANGED chatVars

CallGetDirections ==
    /\ last = NoCall
    /\ \E origin \in Texts, destination \in Texts, geo1 \in GeoOutcomes,
          geo2 \in GeoOutcomes, route \in RouteOutcomes :
          last' = Invocation("get_directions",
                             [origin |-> origin, destination |-> destination],
                             get_directions(origin, destination, geo1, geo2, route))
                  @@ [attempts |->
                        Attempts(get_directions(origin, destination, geo1, geo2,
                                                route).net,
                                 (IF IsBlank(origin) THEN <<>>
                                  ELSE <<GeoAttempt(origin, geo1)>>)
                                 \o <<GeoAttempt(destination, geo2),
                                      Attempt("mapbox_directions", <<>>,
                                              route \in {"neterr", "http_error"})>>),
                      geo1 |-> geo1, geo2 |-> geo2, route |-> route]
    /\ UNCHANGED <<API_KEY, MAPBOX_TOKEN, TWILIO, tmp, now, writes>>
    /\ UNCHANGED chatVars

CallSubmitPoliceCase ==
    /\ last = NoCall
    /\ \E incident_description \in Texts, location \in Texts,
          contact_method \in ContactMethods, urgency \in Urgencies,
          tw \in TwilioOutcomes, fsSms \in FsOutcomes, fsEmail \in FsOutcomes,
          fsCase \in FsOutcomes, r \in 0..MaxRand :
          LET eff == submit_police_case(incident_description, location,
                                        contact_method, urgency, tw, fsSms,
                                        fsEmail, fsCase, now, r, tmp)
          IN /\ last' = Invocation("submit_police_case",
                                   [incident_description |-> incident_description,
                                    location |-> location,
                                    contact_method |-> contact_method,
                                    urgency |-> urgency], eff)
                            @@ [case_id |-> eff.case_id,
                                channel |-> ChannelOutcome(contact_method, tw,
                                                           fsSms, fsEmail),
                                record_write |-> fsCase,
                                attempts |->
                                  Attempts(eff.net,
                                     <<Attempt("twilio", <<>>,
                                               tw = "send_fails")>>)]
             /\ tmp' = eff.tmp
    /\ UNCHANGED <<API_KEY, MAPBOX_TOKEN, TWILIO, now, writes>>
    /\ UNCHANGED chatVars

Theft == <<"t", "h", "e", "f", "t">>

CallGetWeatherInformation ==
    /\ last = NoCall
    /\ \E location \in {<<>>, <<"P">>}, ws \in EmbeddedSearchOutcomes :
          LET eff == get_weather_information(location, ws)
          IN last' = Invocation("get_weather_information",
                                [location |-> location], eff)
                     @@ [attempts |->
                           Attempts(eff.net,
                              <<Attempt("ddgs",
                                        CurrentWeather \o location \o TodayTemperature,
                                        ws = "raises")>>)]
    /\ UNCHANGED <<API_KEY, MAPBOX_TOKEN, TWILIO, tmp, now, writes>>
    /\ UNCHANGED chatVars

CallGetCurrentLocation ==
    /\ last = NoCall
    /\ \E ip \in IpOutcomes :
          LET eff == get_current_location(ip)
          IN last' = Invocation("get_current_location", <<>>, eff)
                     @@ [attempts |->
                           Attempts(eff.net,
                              <<Attempt("ip-api", <<>>,
                                        ip \in {"neterr", "http_error"})>>),
                         ip |-> ip]
    /\ UNCHANGED <<API_KEY, MAPBOX_TOKEN, TWILIO, tmp, now, writes>>
    /\ UNCHANGED chatVars

CallGetSafetyTips ==
    /\ last = NoCall
    /\ \E situation_type \in {<<"l", "o", "s", "t">>, Theft},
          location \in {<<>>, <<"P">>}, ws \in EmbeddedSearchOutcomes :
          LET eff == get_safety_tips(situation_type, location, ws)
          IN last' = Invocation("get_safety_tips",
                                [situation_type |-> situation_type,
                                 location |-> location], eff)
                     @@ [attempts |->
                           Attempts(eff.net,
                              <<Attempt("ddgs",
                                        SafetyTipsFor \o situation_type \o WhatToDo,
                                        ws = "raises")>>)]
    /\ UNCHANGED <<API_KEY, MAPBOX_TOKEN, TWILIO, tmp, now, writes>>
    /\ UNCHANGED chatVars

CallFindNearbyResources ==
    /\ last = NoCall
    /\ \E location \in Texts, resource_type \in {<<"p">>},
          geo \in GeoOutcomes, ws \in EmbeddedSearchOutcomes :
          LET eff == find_nearby_resources(location, resource_type, geo, ws)
          IN last' = Invocation("find_nearby_resources",
                                [location |-> location,
                                 resource_type |-> resource_type], eff)
                     @@ [attempts |->
                           Attempts(eff.net,
                              <<GeoAttempt(location, geo),
                                Attempt("ddgs",
                                        resource_type \o <<" ">> \o location
                                            \o AddressContact,
                                        ws = "raises")>>)]
    /\ UNCHANGED <<API_KEY, MAPBOX_TOKEN, TWILIO, tmp, now, writes>>
    /\ UNCHANGED chatVars

CallGetLegalInformation ==
    /\ last = NoCall
    /\ \E country \in {<<"G">>}, legal_topic \in {<<>>, Theft},
          situation \in {<<>>, <<"s">>} :
          LET queries == legal_search_queries(country, legal_topic, situation)
          IN \E outcomes \in [1..Len(queries) -> EmbeddedSearchOutcomes] :
                LET eff == get_legal_information(country, legal_topic,
                                                 situation, outcomes)
                IN last' = Invocation("get_legal_information",
                                      [country |-> country,
                                       legal_topic |-> legal_topic,
                                       situation |-> situation], eff)
                           @@ [attempts |->
                                 Attempts(eff.net,
                                          SearchAttempts(queries, outcomes))]
    /\ UNCHANGED <<API_KEY, MAPBOX_TOKEN, TWILIO, tmp, now, writes>>
    /\ UNCHANGED chatVars

CallAnalyzeThreatPatterns ==
    /\ last = NoCall
    /\ \E incident_description \in {<<"l", "o", "s", "t">>, Theft},
          location \in {<<>>, <<"P">>} :
          LET queries == pattern_queries(incident_description, location)
          IN \E outcomes \in [1..Len(queries) -> EmbeddedSearchOutcomes] :
                LET eff == analyze_threat_patterns(incident_description,
                                                   location, outcomes)
                IN last' = Invocation("analyze_threat_patterns",
                                      [incident_description |-> incident_description,
                                       location |-> location], eff)
                           @@ [attempts |->
                                 Attempts(eff.net,
                                          SearchAttempts(queries, outcomes))]
    /\ UNCHANGED <<API_KEY, MAPBOX_TOKEN, TWILIO, tmp, now, writes>>
    /\ UNCHANGED chatVars

(***************************************************************************)
(* Invocations that share the tmp directory: the file-writing tools called *)
(* one after the other, by one session or by several (the tools keep no    *)
(* state between calls other than the directory), with external calls      *)
(* that succeed, so that every invocation writes its files.                *)
(***************************************************************************)
PathsWritten(log) == { log[i].path : i \in 1..Len(log) }

SharedCreateSatelliteMap ==
    /\ Len(writes) < MaxInvocations
    /\ \E r \in 0..MaxRand :
          LET http == [sent |-> "response", status_code |-> 200,
                       content_type |-> <<"i", "m", "a", "g", "e", "/", "p", "n", "g">>,
                       body |-> MaxBody]
              eff == create_satellite_map(<<"P">>, <<"6", "x", "4">>,
                        [status |-> "ok", lat |-> 48, lon |-> 2], http, "ok",
                        0, now, r, tmp)
          IN /\ last' = Invocation("create_satellite_map",
                                   [location |-> <<"P">>,
                                    size |-> <<"6", "x", "4">>], eff)
             /\ tmp' = eff.tmp
             /\ writes' = Append(writes,
                                 [tool |-> "create_satellite_map", t |-> now,
                                  suffix |-> SubSeq(UuidHex(r), 1, 6),
                                  paths |-> PathsWritten(eff.log)])
    /\ UNCHANGED <<API_KEY, MAPBOX_TOKEN, TWILIO, now>>
    /\ UNCHANGED chatVars

SharedSubmitPoliceCase ==
    /\ Len(writes) < MaxInvocations
    /\ \E contact_method \in ContactMethods, tw \in {"sent", "send_fails"},
          r \in 0..MaxRand :
          LET eff == submit_police_case(<<"Q">>, <<"P">>, contact_method,
                        "normal", tw, "ok", "ok", "ok", now, r, tmp)
          IN /\ last' = Invocation("submit_police_case",
                                   [incident_description |-> <<"Q">>,
                                    location |-> <<"P">>,
                                    contact_method |-> contact_method,
                                    urgency |-> "normal"], eff)
             /\ tmp' = eff.tmp
             /\ writes' = Append(writes,
                                 [tool |-> "submit_police_case", t |-> now,
                                  suffix |-> Upper(SubSeq(UuidHex(r), 1, 8)),
                                  paths |-> PathsWritten(eff.log)])
    /\ UNCHANGED <<API_KEY, MAPBOX_TOKEN, TWILIO, now>>
    /\ UNCHANGED chatVars

(***************************************************************************)
(* Situation texts for assess_risk_level: up to MaxFrags fragments, so     *)
(* that keywords occur alone, together, in upper case, and split over two  *)
(* fragments.                                                              *)
(***************************************************************************)
Fragments ==
    { <<"I", " ", "s", "a", "w", " ", "a", " ", "s", "u", "s", "p", "i", "c",
        "i", "o", "u", "s", " ">>,
      <<"w", "e", "a", "p", "o", "n">>,
      <<"W", "e", "a", "p", "o", "n">>,
      <<"t", "h", "r">>,
      <<"e", "a", "t">>,
      <<"T", "H", "E", "F", "T">>,
      <<"l", "o", "s", "t">>,
      <<" ">> }

FragmentLists == UNION { [1..n -> Fragments] : n \in 0..MaxFrags }
Situations == { Concat(fl) : fl \in FragmentLists }

\* Locations and contexts passed with the situation: empty, plain, and texts
\* that are themselves keywords of the tables.
RiskLocations == { <<>>, <<"P">>, <<"w", "e", "a", "p", "o", "n">> }
RiskContexts == { <<>>, <<"t", "h", "e", "f", "t">> }

CallAssessRiskLevel ==
    /\ last = NoCall
    /\ \E situation \in Situations, location \in RiskLocations,
          context \in RiskContexts, ws \in EmbeddedSearchOutcomes :
          last' = Invocation("assess_risk_level",
                             [situation |-> situation, location |-> location,
                              context |-> context],
                             assess_risk_level(situation, location, context, ws))
    /\ UNCHANGED <<API_KEY, MAPBOX_TOKEN, TWILIO, tmp, now, writes>>
    /\ UNCHANGED chatVars

(***************************************************************************)
(* app.py: the chat script.  One run of the script handles one submission  *)
(* of the chat input; the loop over the agent's stream is one step per     *)
(* chunk, the tools run inside the agent between the chunks.  The action   *)
(* placeholder (action_ph) only displays the tool name and is left out.    *)
(***************************************************************************)
Prompts == { <<"h", "i">> }
ExamplePrompts == { <<"m", "a", "p">> }
ToolNames == {"create_satellite_map", "web_search"}

\* Content of a RunResponseContent chunk: getattr(chunk, "content", None).
Contents ==
    { [has_content |-> TRUE, content |-> <<"a">>],
      [has_content |-> TRUE, content |-> <<"b">>],
      [has_content |-> TRUE, content |-> <<>>],
      [has_content |-> FALSE, content |-> <<>>] }

\* Exceptions the stream raises while it is consumed.
StreamErrors == {"model call failed"}
NoneHasNoReplace == "'NoneType' object has no attribute 'replace'"

UserMsg(content, image) ==
    [role |-> "user", content |-> content, image |-> image, tool_images |-> <<>>]
AssistantMsg(content, images) ==
    [role |-> "assistant", content |-> content, image |-> FALSE,
     tool_images |-> images]

\* glob.glob("tmp/satellite_map_*.png")
GlobMaps(dir) == { p \in DOMAIN dir : p[1] = "tmp/satellite_map" }

\* sorted(): the names differ in the time and the suffix only.
PathLess(p, q) == p[2] < q[2] \/ (p[2] = q[2] /\ p[3] < q[3])

RECURSIVE Sorted(_)
Sorted(S) ==
    IF S = {} THEN <<>>
    ELSE LET m == CHOOSE x \in S : \A y \in S \ {x} : PathLess(x, y)
         IN <<m>> \o Sorted(S \ {m})

Range(f) == { f[i] : i \in DOMAIN f }

Markdown(text, cursor) == [kind |-> "markdown", text |-> text, cursor |-> cursor]
ErrorText(e) == <<"Error: ", e>>

\* Mutation of AppendContent: the fragment replaces the accumulated text.
ReplaceContent(text, content) == content

\* full += chunk.content
AppendContent(text, content) == text \o content

\* if full: ph.markdown(full + cursor), at the end of every iteration.
EndOfIteration(text, shown) ==
    IF text # <<>> THEN Markdown(text, TRUE) ELSE shown

\* Lines 76-80: an example prompt set by a sidebar button is appended as a
\* user message, cleared, and the script reruns; the rerun finds no chat
\* input and ends.
ExamplePrompt ==
    /\ pc = "idle"
    /\ steps < MaxSteps
    /\ \E example_prompt \in ExamplePrompts :
          messages' = Append(messages, UserMsg(example_prompt, FALSE))
    /\ examples' = examples + 1
    /\ steps' = steps + 1
    /\ UNCHANGED <<pc, full, current_tool, map_images, existing_maps, ph,
                   image_file, turns, open, deltas, completed, outcome>>
    /\ UNCHANGED toolVars

\* Lines 84-113: a chat input is submitted; the script runs up to the loop.
ChatInput ==
    /\ pc = "idle"
    /\ steps < MaxSteps
    /\ \E prompt \in Prompts, uploaded \in BOOLEAN :
          /\ messages' = Append(messages, UserMsg(prompt, uploaded))
          /\ image_file' = IF uploaded THEN "exists" ELSE "none"
    /\ map_images' = <<>>
    /\ existing_maps' = GlobMaps(tmp)
    /\ full' = <<>>
    /\ ph' = [kind |-> "empty"]
    /\ current_tool' = "None"
    /\ pc' = "streaming"
    /\ turns' = turns + 1
    /\ steps' = steps + 1
    /\ open' = <<>>
    /\ deltas' = <<>>
    /\ completed' = {}
    /\ outcome' = "none"
    /\ UNCHANGED examples
    /\ UNCHANGED toolVars

\* Mutation of Abort: the failed turn overwrites the last stored message.
AbortReplacingLastTurn(e) ==
    /\ ph' = [kind |-> "error", text |-> ErrorText(e)]
    /\ messages' = [messages EXCEPT ![Len(messages)] = AssistantMsg(full, map_images)]
    /\ pc' = "idle"
    /\ outcome' = "error"
    /\ UNCHANGED <<full, current_tool, map_images, existing_maps, image_file,
                   turns, examples>>

\* Lines 151-159: the except clause, then "Store assistant msg".
Abort(e) ==
    /\ ph' = [kind |-> "error", text |-> ErrorText(e)]
    /\ messages' = Append(messages, AssistantMsg(full, map_images))
    /\ pc' = "idle"
    /\ outcome' = "error"
    /\ UNCHANGED <<full, current_tool, map_images, existing_maps, image_file,
                   turns, examples>>

\* Lines 117-120: a RunResponseContent chunk.
OnContent ==
    /\ pc = "streaming"
    /\ steps < MaxSteps
    /\ \E c \in Contents :
          LET truthy == c.has_content /\ c.content # <<>>
              text == IF truthy THEN AppendContent(full, c.content) ELSE full
          IN /\ full' = text
             /\ current_tool' = IF truthy THEN "None" ELSE current_tool
             /\ ph' = EndOfIteration(text, ph)
             /\ deltas' = deltas \o (IF c.has_content THEN c.content ELSE <<>>)
    /\ steps' = steps + 1
    /\ UNCHANGED <<messages, pc, map_images, existing_maps, image_file, turns,
                   examples, open, completed, outcome>>
    /\ UNCHANGED toolVars

\* Lines 121-133: a ToolCallStarted chunk.
OnToolCallStarted ==
    /\ pc = "streaming"
    /\ steps < MaxSteps
    /\ \E tool_name \in ToolNames :
          /\ current_tool' = tool_name
          /\ open' = open @@ ((steps + 1) :>
                        [name |-> tool_name, ran |-> FALSE, path |-> NoPath])
    /\ ph' = EndOfIteration(full, ph)
    /\ steps' = steps + 1
    /\ UNCHANGED <<messages, pc, full, map_images, existing_maps, image_file,
                   turns, examples, deltas, completed, outcome>>
    /\ UNCHANGED toolVars

\* Outcomes of a create_satellite_map call made by the agent during a turn:
\* the map is served or not, the file is written or the write fails.
ChatHttpOutcomes ==
    { h \in HttpOutcomes :
        /\ h.sent = "response"
        /\ h.body = MaxBody
        /\ h.content_type = <<"i", "m", "a", "g", "e", "/", "p", "n", "g">> }
ChatGeoOutcomes == { g \in GeoOutcomes : g.lat = 48 }
ChatFsOutcomes == {"ok", "write_fails"}

\* The agent executes a started create_satellite_map call (agent.py 153-199)
\* between the ToolCallStarted and the ToolCallCompleted chunk of the call.
AgentRunsCreateSatelliteMap ==
    /\ pc = "streaming"
    /\ \E id \in DOMAIN open :
          /\ open[id].name = "create_satellite_map"
          /\ ~open[id].ran
          /\ \E geo \in ChatGeoOutcomes, http \in ChatHttpOutcomes,
                fs \in ChatFsOutcomes, r \in 0..MaxRand :
                   LET eff == create_satellite_map(<<"P">>, <<"6", "x", "4">>,
                                  geo, http, fs, 0, now, r, tmp)
                       made == eff.result.tag = "MapCreated"
                   IN /\ tmp' = eff.tmp
                      /\ open' = [open EXCEPT ![id] =
                                    [name |-> open[id].name, ran |-> TRUE,
                                     path |-> IF made THEN eff.result.path
                                              ELSE NoPath]]
    /\ UNCHANGED <<messages, pc, full, current_tool, map_images, existing_maps,
                   ph, image_file, turns, examples, steps, deltas, completed,
                   outcome>>
    /\ UNCHANGED <<API_KEY, MAPBOX_TOKEN, TWILIO, now, last, writes>>

\* Lines 134-143: a ToolCallCompleted chunk, for a call the agent has run.
OnToolCallCompleted ==
    /\ pc = "streaming"
    /\ steps < MaxSteps
    /\ \E id \in DOMAIN open :
          /\ open[id].name = "create_satellite_map" => open[id].ran
          /\ open' = [i \in (DOMAIN open) \ {id} |-> open[i]]
          /\ completed' = IF open[id].path # NoPath
                          THEN completed \cup {open[id].path} ELSE completed
    /\ steps' = steps + 1
    /\ LET sweep == current_tool = "create_satellite_map"
           new_maps == IF sweep THEN GlobMaps(tmp) \ existing_maps ELSE {}
           images == map_images \o Sorted(new_maps)
           shown == IF new_maps # {}
                    THEN [kind |-> "image", path |-> images[Len(images)]]
                    ELSE ph
       IN IF current_tool = "None"
          THEN Abort(NoneHasNoReplace)
          ELSE /\ map_images' = images
               /\ existing_maps' = existing_maps \cup new_maps
               /\ ph' = EndOfIteration(full, shown)
               /\ UNCHANGED <<messages, pc, full, current_tool, image_file,
                              turns, examples, outcome>>
    /\ UNCHANGED deltas
    /\ UNCHANGED toolVars

\* Lines 116, 144-145: a chunk without an event, or with another event.
OnOtherChunk ==
    /\ pc = "streaming"
    /\ steps < MaxSteps
    /\ ph' = EndOfIteration(full, ph)
    /\ steps' = steps + 1
    /\ UNCHANGED <<messages, pc, full, current_tool, map_images, existing_maps,
                   image_file, turns, examples, open, deltas, completed,
                   outcome>>
    /\ UNCHANGED toolVars

\* The stream raises while the loop waits for the next chunk.
StreamRaises ==
    /\ pc = "streaming"
    /\ \E e \in StreamErrors : Abort(e)
    /\ UNCHANGED <<steps, open, deltas, completed>>
    /\ UNCHANGED toolVars

\* Lines 147-149 and 155-159: the stream is exhausted.
StreamEnds ==
    /\ pc = "streaming"
    /\ image_file' = IF image_file = "exists" THEN "unlinked" ELSE image_file
    /\ ph' = Markdown(full, FALSE)
    /\ messages' = Append(messages, AssistantMsg(full, map_images))
    /\ pc' = "idle"
    /\ outcome' = "ok"
    /\ UNCHANGED <<full, current_tool, map_images, existing_maps, turns,
                   examples, steps, open, deltas, completed>>
    /\ UNCHANGED toolVars

(***************************************************************************)
(* Specifications.                                                         *)
(***************************************************************************)
InitChatVars ==
    /\ messages = <<>>
    /\ pc = "idle"
    /\ full = <<>>
    /\ current_tool = "None"
    /\ map_images = <<>>
    /\ existing_maps = {}
    /\ ph = [kind |-> "empty"]
    /\ image_file = "none"
    /\ turns = 0
    /\ examples = 0
    /\ steps = 0
    /\ open = <<>>
    /\ deltas = <<>>
    /\ completed = {}
    /\ outcome = "none"

InitToolVars ==
    /\ tmp = <<>>
    /\ now = 0
    /\ last = NoCall
    /\ writes = <<>>

\* The tools, invoked in any order with any arguments and outcomes.
Init ==
    /\ API_KEY = TRUE
    /\ MAPBOX_TOKEN \in BOOLEAN
    /\ TWILIO \in BOOLEAN
    /\ InitToolVars
    /\ InitChatVars

Next ==
    \/ Tick
    \/ CallCoordinatesOfLocation
    \/ CallWebSearch
    \/ CallCreateSatelliteMap
    \/ CallGetDirections
    \/ CallSubmitPoliceCase
    \/ CallGetWeatherInformation
    \/ CallGetCurrentLocation
    \/ CallGetSafetyTips
    \/ CallFindNearbyResources
    \/ CallGetLegalInformation
    \/ CallAnalyzeThreatPatterns

Spec == Init /\ [][Next]_vars

\* assess_risk_level on the situation texts.
InitRisk ==
    /\ API_KEY = TRUE
    /\ MAPBOX_TOKEN = TRUE
    /\ TWILIO = TRUE
    /\ InitToolVars
    /\ InitChatVars

NextRisk == CallAssessRiskLevel

SpecRisk == InitRisk /\ [][NextRisk]_vars

\* One chat session, started with or without the OpenRouter key (agent.py
\* 29, 36-37: a missing key is reported by a warning and the import goes on).
InitChat ==
    /\ API_KEY \in BOOLEAN
    /\ MAPBOX_TOKEN = TRUE
    /\ TWILIO = TRUE
    /\ InitToolVars
    /\ InitChatVars

NextChat ==
    \/ ExamplePrompt
    \/ ChatInput
    \/ OnContent
    \/ OnToolCallStarted
    \/ AgentRunsCreateSatelliteMap
    \/ OnToolCallCompleted
    \/ OnOtherChunk
    \/ StreamRaises
    \/ StreamEnds

SpecChat == InitChat /\ [][NextChat]_vars

\* The file-writing tools, invoked several times on one tmp directory.
InitShared ==
    /\ API_KEY = TRUE
    /\ MAPBOX_TOKEN = TRUE
    /\ TWILIO = TRUE
    /\ InitToolVars
    /\ InitChatVars

NextShared ==
    \/ Tick
    \/ SharedCreateSatelliteMap
    \/ SharedSubmitPoliceCase

SpecShared == InitShared /\ [][NextShared]_vars

\* One chat session, and the create_satellite_map calls of a second session
\* served by the same process, on the one tmp directory.
NextTwoSessions ==
    \/ NextChat
    \/ SharedCreateSatelliteMap

SpecTwoSessions == InitShared /\ [][NextTwoSessions]_vars

(***************************************************************************)
(* Properties of the tools.                                                *)
(***************************************************************************)
SawASuspicious ==
    <<"I", " ", "s", "a", "w", " ", "a", " ", "s", "u", "s", "p", "i", "c",
      "i", "o", "u", "s", " ">>
Weapon == <<"w", "e", "a", "p", "o", "n">>

\* C1: assess_risk_level returns for every situation, with exactly one of
\* LOW, MEDIUM, HIGH: HIGH whenever the lower-cased situation contains a
\* HIGH keyword (also when a MEDIUM keyword matches too), MEDIUM when it
\* contains no HIGH keyword but a MEDIUM one, LOW otherwise.
C1_RiskTierPrecedence ==
    last.tool = "assess_risk_level" =>
        LET s == Lower(last.args.situation)
            high == \E k \in high_risk_keywords : Contains(s, k)
            medium == \E k \in medium_risk_keywords : Contains(s, k)
        IN /\ last.result.kind = "return"
           /\ last.result.tag = "RiskAssessment"
           /\ last.result.risk_level \in {"LOW", "MEDIUM", "HIGH"}
           /\ high => last.result.risk_level = "HIGH"
           /\ (~high /\ medium) => last.result.risk_level = "MEDIUM"
           /\ (~high /\ ~medium) => last.result.risk_level = "LOW"

\* "I saw a suspicious weapon": a MEDIUM and a HIGH keyword, reported HIGH.
C1_Witness ==
    /\ last.tool = "assess_risk_level"
    /\ last.args.situation = SawASuspicious \o Weapon
    /\ Contains(Lower(last.args.situation),
                <<"s", "u", "s", "p", "i", "c", "i", "o", "u", "s">>)
    /\ last.result.risk_level = "HIGH"

\* C13: the risk level and the recommended action that assess_risk_level
\* reports depend on the situation text alone: every call with the same
\* situation, whatever its location, its context and the outcome of the
\* embedded web search (results, no results, an exception), returns a result
\* with the same level and the same action.
C13_RiskDependsOnSituationOnly ==
    last.tool = "assess_risk_level" =>
        /\ last.result.kind = "return"
        /\ \A location \in RiskLocations, context \in RiskContexts,
              ws \in EmbeddedSearchOutcomes :
              LET other == assess_risk_level(last.args.situation, location,
                                             context, ws).result
              IN /\ other.kind = "return"
                 /\ other.tag = "RiskAssessment"
                 /\ other.risk_level = last.result.risk_level
                 /\ other.immediate_action = last.result.immediate_action

\* "lost" at the location "weapon", in the context "theft", with the embedded
\* search raising: LOW, as for every other call with that situation.
C13_Witness ==
    /\ last.tool = "assess_risk_level"
    /\ last.args.situation = <<"l", "o", "s", "t">>
    /\ last.args.location = <<"w", "e", "a", "p", "o", "n">>
    /\ last.args.context = <<"t", "h", "e", "f", "t">>
    /\ last.net = <<>>
    /\ last.result.risk_level = "LOW"

\* The required string arguments of an invocation.
RequiredArgs(call) ==
    CASE call.tool = "coordinates_of_location" -> {call.args.location}
      [] call.tool = "create_satellite_map" -> {call.args.location}
      [] call.tool = "web_search" -> {call.args.query}
      [] call.tool = "get_directions" ->
            {call.args.origin, call.args.destination}
      [] call.tool = "submit_police_case" ->
            {call.args.incident_description, call.args.location}
      [] OTHER -> {}

\* The invocation failed on the blank argument: the ValueError of the blank
\* check, raised or reported in the returned text.
IsInvalidArgument(result) ==
    \/ result.kind = "raise" /\ result.error.msg = "Location cannot be empty"
    \/ result.kind = "return" /\ result.tag = "LocationEmpty"
    \/ /\ result.kind = "return"
       /\ result.tag \in {"MapFailed", "DirectionsFailed"}
       /\ result.error.msg = "Location cannot be empty"

\* C2: every tool invoked with a blank or whitespace-only required string
\* argument fails with InvalidArgument and makes no network call.
C2_BlankArgumentRejected ==
    (last.tool # "none" /\ \E a \in RequiredArgs(last) : IsBlank(a)) =>
        /\ IsInvalidArgument(last.result)
        /\ last.net = <<>>

\* C3: no tool raises past its own boundary: whatever the outcome of its
\* external call, the tool returns a string.
C3_NoToolRaises ==
    (last.tool # "none" /\ last.net # <<>>) => last.result.kind = "return"

\* The writes of the case record tmp/case_<case_id>.json in an invocation.
RecordWrites(call) ==
    { i \in 1..Len(call.log) : call.log[i].path = CasePath(call.case_id) }

RecordOnDisk(call) ==
    /\ CasePath(call.case_id) \in DOMAIN tmp
    /\ tmp[CasePath(call.case_id)].kind = "json"
    /\ tmp[CasePath(call.case_id)].complete
    /\ tmp[CasePath(call.case_id)].data.case_id = call.case_id
    /\ tmp[CasePath(call.case_id)].data.status = "submitted"

ChannelFailed(call) ==
    call.channel \in {"sms_client_fails", "sms_send_fails",
                      "sms_send_and_file_fail", "email_fails"}

\* The returned text reports the failure of the channel.
ReportsChannelFailure(call) ==
    /\ call.result.tag = "Submitted"
    /\ \E i \in 1..Len(call.result.messages) :
          call.result.messages[i] \in
              (IF call.channel = "email_fails" THEN {"EmailFailed"}
               ELSE IF call.channel = "sms_send_fails" THEN {"SmsRestricted"}
               ELSE {"SmsConfigError"})

MentionsPath(result) ==
    \/ result.tag = "MapCreated"
    \/ result.tag = "MapFailed" /\ result.error.filename # NoPath

\* C6: create_satellite_map either returns the path of a file that exists
\* and is non-empty, or an error string that contains no file path.
C6_MapPathOrCleanError ==
    last.tool = "create_satellite_map" =>
        \/ /\ last.result.tag = "MapCreated"
           /\ last.result.path \in DOMAIN tmp
           /\ tmp[last.result.path].bytes > 0
        \/ /\ last.result.tag # "MapCreated"
           /\ ~MentionsPath(last.result)

\* C7: create_satellite_map writes a file only after the map request
\* returned HTTP 200 with an image content-type, and on every error outcome
\* no new or partial file is left in the tmp directory.
C7_NoFileOnError ==
    last.tool = "create_satellite_map" =>
        /\ last.log # <<>> =>
              /\ last.response # <<>>
              /\ last.response[1].status_code = 200
              /\ IsImage(last.response[1].content_type)
        /\ last.result.tag # "MapCreated" => DOMAIN tmp = {}

\* C14: for every non-blank location, geocoding either returns a latitude in
\* [-90, 90] and a longitude in [-180, 180], or fails with the not-found
\* error; it never returns an out-of-range pair.
C14_GeocodeInRange ==
    (last.tool = "coordinates_of_location" /\ ~IsBlank(last.args.location)) =>
        \/ /\ last.result.kind = "return"
           /\ last.result.lat \in -90..90
           /\ last.result.lon \in -180..180
        \/ /\ last.result.kind = "raise"
           /\ last.result.error.msg = "Location not found"

UpperHexDigits ==
    {"0", "1", "2", "3", "4", "5", "6", "7", "8", "9", "A", "B", "C", "D", "E", "F"}

\* CASE_<decimal digits>_<exactly 8 upper-case hexadecimal characters>
IsCaseIdForm(s) ==
    /\ Len(s) >= 15
    /\ SubSeq(s, 1, 5) = <<"C", "A", "S", "E", "_">>
    /\ \A i \in 6..(Len(s) - 9) : s[i] \in Range(Digits)
    /\ s[Len(s) - 8] = "_"
    /\ \A i \in (Len(s) - 7)..Len(s) : s[i] \in UpperHexDigits

\* C15: every case ID generated by submit_police_case, and the case_id field
\* of every written case record, has the form
\* CASE_<decimal Unix seconds>_<exactly 8 upper-case hexadecimal characters>,
\* the seconds being a time of the clock up to now.
C15_CaseIdForm ==
    last.tool = "submit_police_case" =>
        /\ IsCaseIdForm(last.case_id)
        /\ \E t \in 0..now :
              SubSeq(last.case_id, 6, Len(last.case_id) - 9) = Decimal(UnixSeconds(t))
        /\ \A p \in DOMAIN tmp :
              tmp[p].kind = "json" =>
                  /\ tmp[p].data.case_id = last.case_id
                  /\ IsCaseIdForm(tmp[p].data.case_id)
        /\ last.result.tag = "Submitted" =>
              /\ last.result.case_id = last.case_id
              /\ CasePath(last.case_id) \in DOMAIN tmp

\* A case submitted one second after the start of the session, with letters
\* in the suffix: its record carries CASE_1700000001_2907E5C3.
C15_Witness ==
    /\ last.tool = "submit_police_case"
    /\ last.result.tag = "Submitted"
    /\ now = 1
    /\ last.case_id = <<"C", "A", "S", "E", "_", "1", "7", "0", "0", "0", "0", "0", "0", "0", "1", "_", "2", "9", "0", "7", "E", "5", "C", "3">>
    /\ tmp[CasePath(last.case_id)].data.case_id = last.case_id

\* C16 as stated: no two invocations of create_satellite_map or
\* submit_police_case that share the tmp directory write to the same path.
C16_PathsUnique ==
    \A i \in 1..Len(writes), j \in 1..Len(writes) :
        i # j => writes[i].paths \cap writes[j].paths = {}

\* C16 amended: two invocations write to the same path only if they are
\* invocations of the same tool in the same clock second that drew the same
\* random suffix; invocations of different tools, in different seconds or
\* with different suffixes write to different paths, and every file an
\* invocation wrote is in the directory.
C16_PathsUniqueUnlessSameSecondAndSuffix ==
    /\ \A i \in 1..Len(writes), j \in 1..Len(writes) :
          (i # j /\ writes[i].paths \cap writes[j].paths # {}) =>
              /\ writes[i].tool = writes[j].tool
              /\ writes[i].t = writes[j].t
              /\ writes[i].suffix = writes[j].suffix
    /\ \A i \in 1..Len(writes) :
          /\ writes[i].paths # {}
          /\ writes[i].paths \subseteq DOMAIN tmp

\* Two maps made in the same second with different suffixes: two files.
C16_Witness ==
    /\ Len(writes) = 2
    /\ writes[1].tool = "create_satellite_map"
    /\ writes[2].tool = "create_satellite_map"
    /\ writes[1].t = writes[2].t
    /\ writes[1].suffix # writes[2].suffix
    /\ writes[1].paths \cap writes[2].paths = {}
    /\ Cardinality(GlobMaps(tmp)) = 2

MapboxTools == {"create_satellite_map", "get_directions"}

\* C17 as stated: with no Mapbox token, create_satellite_map and
\* get_directions return the "token not configured" text, make no network
\* call (not even the geocoding call) and write no file.
C17_TokenMissingFallback ==
    (~MAPBOX_TOKEN /\ last.tool \in MapboxTools) =>
        /\ last.result.kind = "return"
        /\ last.result.tag = "TokenMissing"
        /\ last.net = <<>>
        /\ last.log = <<>>
        /\ DOMAIN tmp = {}

\* C17 amended: with no Mapbox token, create_satellite_map and get_directions
\* make no network call and write no file; get_directions returns the "token
\* not configured" text for all arguments, create_satellite_map returns it
\* for every non-blank location and the "Location cannot be empty" text for
\* a blank one.
C17_TokenMissingNoNetworkNoFile ==
    (~MAPBOX_TOKEN /\ last.tool \in MapboxTools) =>
        /\ last.result.kind = "return"
        /\ last.result.tag =
              (IF last.tool = "create_satellite_map" /\ IsBlank(last.args.location)
               THEN "LocationEmpty" ELSE "TokenMissing")
        /\ last.net = <<>>
        /\ last.log = <<>>
        /\ DOMAIN tmp = {}

\* Directions asked between two places without a token.
C17_Witness ==
    /\ ~MAPBOX_TOKEN
    /\ last.tool = "get_directions"
    /\ ~IsBlank(last.args.origin)
    /\ ~IsBlank(last.args.destination)
    /\ last.result.tag = "TokenMissing"
    /\ last.net = <<>>

\* The geocoding request for a place was answered with a result.
Geocoded(location, geo) == ~IsBlank(location) /\ geo.status = "ok"

\* The geocoding request for a place was answered with an empty list.
GeocodedNothing(location, geo) == ~IsBlank(location) /\ geo.status = "empty"

\* C21: in get_directions, a geocoding of the origin or of the destination
\* that finds nothing gives the "Failed to get directions" text and no
\* routing request; a routing response without routes gives the "No route
\* found" text; the routing request is sent only after both geocoding calls
\* have succeeded, and is then the third and last request.
C21_ZeroResultsBecomeText ==
    (last.tool = "get_directions" /\ MAPBOX_TOKEN) =>
        LET origin_ok == Geocoded(last.args.origin, last.geo1)
            dest_ok == Geocoded(last.args.destination, last.geo2)
            routed == \E i \in 1..Len(last.net) : last.net[i] = "mapbox_directions"
        IN /\ (GeocodedNothing(last.args.origin, last.geo1)
                 \/ (origin_ok /\ GeocodedNothing(last.args.destination, last.geo2)))
              => /\ last.result.kind = "return"
                 /\ last.result.tag = "DirectionsFailed"
                 /\ last.result.error.type = "ValueError"
                 /\ ~routed
           /\ (origin_ok /\ dest_ok /\ last.route = "no_routes")
              => /\ last.result.kind = "return"
                 /\ last.result.tag = "NoRoute"
           /\ routed
              => /\ origin_ok /\ dest_ok
                 /\ last.net = <<"nominatim", "nominatim", "mapbox_directions">>

\* The origin is found, the destination is not.
C21_Witness ==
    /\ MAPBOX_TOKEN
    /\ last.tool = "get_directions"
    /\ Geocoded(last.args.origin, last.geo1)
    /\ GeocodedNothing(last.args.destination, last.geo2)
    /\ last.result.tag = "DirectionsFailed"
    /\ last.net = <<"nominatim", "nominatim">>

\* C25: get_current_location reports a location only from a response whose
\* status field is "success"; a response object with any other status, or
\* with none, gives the manual-entry prompt; a request error gives the
\* "Location detection failed" text.
C25_LocationOnlyOnSuccess ==
    last.tool = "get_current_location" =>
        /\ last.result.kind = "return"
        /\ last.result.tag = "CurrentLocation" => IpStatus(last.ip) = "success"
        /\ IpStatus(last.ip) \in {"fail", "None"} => last.result.tag = "LocationUnknown"
        /\ last.ip \in {"neterr", "http_error"}
              => last.result.tag = "LocationDetectionFailed"

\* The service answers with status "fail".
C25_Witness ==
    /\ last.tool = "get_current_location"
    /\ last.ip = "fail"
    /\ last.result.tag = "LocationUnknown"
    /\ last.net = <<"ip-api">>

\* The statements of a tool that make an external request, counting a
\* statement in a loop once per iteration.
CallStatements(call) ==
    CASE call.tool \in {"create_satellite_map", "find_nearby_resources"} -> 2
      [] call.tool \in {"get_directions", "analyze_threat_patterns"} -> 3
      [] call.tool = "get_legal_information" ->
            Len(legal_search_queries(call.args.country, call.args.legal_topic,
                                     call.args.situation))
      [] OTHER -> 1

SameRequest(a, b) == a.service = b.service /\ a.request = b.request

AssistantTurns == { i \in 1..Len(messages) : messages[i].role = "assistant" }

\* The assistant message of the last finished run.
LastAssistant ==
    messages[CHOOSE i \in AssistantTurns : \A j \in AssistantTurns : j <= i]

TurnFinished == pc = "idle" /\ outcome # "none"

\* C8: every map path produced between a tool's ToolCallStarted and its
\* ToolCallCompleted event is attached to the turn's assistant message,
\* for every ordering of the events of the stream.
C8_ArtifactsAttached ==
    TurnFinished =>
        /\ AssistantTurns # {}
        /\ completed \subseteq Range(LastAssistant.tool_images)

\* C9: after an error during the stream the user turn remains and either no
\* assistant turn was appended or the appended assistant turn's content is
\* the error text that was rendered.
C9_ErrorTurnConsistent ==
    (TurnFinished /\ outcome = "error") =>
        /\ ph.kind = "error"
        /\ \E i \in 1..Len(messages) : messages[i].role = "user"
        /\ \/ Cardinality(AssistantTurns) < turns
           \/ /\ AssistantTurns # {}
              /\ LastAssistant.content = ph.text

\* C10: in a turn that completes without error the stored assistant text is
\* the concatenation, in arrival order, of the content of every
\* RunResponseContent event, whatever tool events are interleaved.
C10_TextIsConcatenation ==
    (TurnFinished /\ outcome = "ok") =>
        /\ AssistantTurns # {}
        /\ LastAssistant.content = deltas

\* Two fragments around a tool event, stored in arrival order.
C10_Witness ==
    /\ TurnFinished
    /\ outcome = "ok"
    /\ deltas = <<"a", "b">>
    /\ DOMAIN open = {3}
    /\ steps = 4
    /\ LastAssistant.content = <<"a", "b">>

\* The calls of agent(...) made so far: line 112 is reached once in every run
\* of the script that handles a chat input, and nowhere else.
AgentInvocations == turns

UserTurns == { i \in 1..Len(messages) : messages[i].role = "user" }

\* C11: the agent is invoked exactly once for every user message appended to
\* the history, typed into the chat input or injected from an example prompt.
C11_AgentInvokedOncePerUserMessage ==
    Cardinality(UserTurns) = AgentInvocations

\* C18: when the OpenRouter key is missing the process does not reach the
\* state where the agent is invoked for a chat turn.
C18_MissingKeyIsFatal == ~API_KEY => (turns = 0 /\ pc = "idle")

\* C19: the chat history is append-only; every step of the session leaves
\* the turns already stored in place, unchanged and in order, and at most
\* adds turns after them.
C19_HistoryAppendOnly ==
    [][/\ Len(messages') >= Len(messages)
       /\ SubSeq(messages', 1, Len(messages)) = messages]_vars

\* An example prompt, a failed turn and a successful turn, all stored.
C19_Witness ==
    /\ Len(messages) = 5
    /\ messages[1].content \in ExamplePrompts
    /\ messages[2].role = "user"
    /\ messages[3].role = "assistant"
    /\ messages[4].role = "user"
    /\ messages[5].role = "assistant"
    /\ outcome = "ok"
    /\ pc = "idle"

\* C20: the loop handles every ToolCallCompleted chunk without raising; no
\* turn ends in the except clause with the error of line 143.
C20_CompletedNeverRaises ==
    ~(outcome = "error" /\ ph.kind = "error" /\ ph.text = ErrorText(NoneHasNoReplace))

\* C22: at the end of every completed script run the history alternates
\* strictly: each user turn is immediately followed by one assistant turn,
\* and each assistant turn immediately follows a user turn.
C22_HistoryAlternates ==
    pc = "idle" =>
        \A i \in 1..Len(messages) :
            /\ messages[i].role = "user"
                  => (i < Len(messages) /\ messages[i + 1].role = "assistant")
            /\ messages[i].role = "assistant"
                  => (i > 1 /\ messages[i - 1].role = "user")

\* The map files written by the create_satellite_map calls of the other
\* session.
OtherSessionMaps == UNION { writes[i].paths : i \in 1..Len(writes) }

\* C23: every map image attached to an assistant turn is attached once, and
\* none of them is a file written by a tool call of the other session that
\* shares the tmp directory.
C23_MapsOfOwnTurnOnly ==
    TurnFinished =>
        LET images == LastAssistant.tool_images
        IN /\ \A i, j \in 1..Len(images) : images[i] = images[j] => i = j
           /\ Range(images) \cap OtherSessionMaps = {}

\* C24: after a turn with an attached image has finished, by the end of the
\* stream or by an error, the temporary file of the image no longer exists.
C24_TempImageDeleted == TurnFinished => image_file # "exists"

====
